---- MODULE Spec2Model ----
(***************************************************************************)
(* A model of the refet crate: the actual-vapor-pressure resolver          *)
(* (src/src/eta.rs), the ASCE reference-ET calculation (src/src/et.rs)     *)
(* and the Input object with its setters (src/src/input.rs).               *)
(*                                                                         *)
(* Numbers.  An f64 is modelled as a fixed-point integer with four         *)
(* decimals (1.0 is SCALE), plus the three special values NaN, PInf and    *)
(* NInf.  Every arithmetic operator below propagates the special values    *)
(* the way IEEE-754 does; the transcendental functions of the standard     *)
(* library (exp, ln, sqrt, sin, cos, tan, acos) are computed by series on  *)
(* the fixed-point values.  A literal such as 6108 stands for 0.6108.      *)
(*                                                                         *)
(* Option<f64> is modelled by the value itself or None.                    *)
(***************************************************************************)
EXTENDS Integers, Sequences, FiniteSets, TLC

VARIABLES
    obs,      \* the climate::output::Output observation handed to the crate
    ctor,     \* the constructor call that built eaIn, with its arguments
    eaIn,     \* the EaInput most recently constructed
    eaOut,    \* what ea() returned on eaIn, if it was called
    et,       \* the outcome of the last calculate_ref_et call, with its locals
    inp,      \* the Input object of input.rs, once Input::new has built it
    inRes     \* the last call made on Input: its arguments and its Result

vars == <<obs, ctor, eaIn, eaOut, et, inp, inRes>>

---------------------------------------------------------------------------
(* f64 as fixed point *)

SCALE == 10000
NaN == 2000000003
PInf == 2000000002
NInf == -2000000002
None == -2000000009

\* std::f64::consts
E == 27183
PI == 31416

IsFinite(a) == a # NaN /\ a # PInf /\ a # NInf
Abs(a) == IF a < 0 THEN -a ELSE a
Sgn(a) == IF a < 0 THEN -1 ELSE IF a > 0 THEN 1 ELSE 0

\* a * b / SCALE for a, b >= 0, rounded, without leaving 32 bits
MulNat(a, b) ==
    LET ah == a \div SCALE
        al == a % SCALE
        bh == b \div SCALE
        bl == b % SCALE
    IN  ah * bh * SCALE + ah * bl + al * bh + (al * bl + SCALE \div 2) \div SCALE

RECURSIVE DivDigits(_, _, _)
DivDigits(r, b, unit) ==
    IF unit = 0 THEN 0
    ELSE ((r * 10) \div b) * unit + DivDigits((r * 10) % b, b, unit \div 10)

\* a * SCALE / b for a >= 0, b > 0, rounded, by long division; a divisor too
\* large for the long division drops its last digit, and the dividend with it
RECURSIVE DivNat(_, _)
DivNat(a, b) ==
    IF b >= 200000000 THEN DivNat(a \div 10, b \div 10)
    ELSE ((a \div b) * SCALE * 10 + DivDigits(a % b, b, SCALE) + 5) \div 10

FNeg(a) ==
    IF a = NaN THEN NaN ELSE IF a = PInf THEN NInf ELSE IF a = NInf THEN PInf ELSE -a

FAdd(a, b) ==
    IF a = NaN \/ b = NaN THEN NaN
    ELSE IF ~IsFinite(a) THEN (IF ~IsFinite(b) /\ b # a THEN NaN ELSE a)
    ELSE IF ~IsFinite(b) THEN b
    ELSE a + b

FSub(a, b) == FAdd(a, FNeg(b))

FMul(a, b) ==
    IF a = NaN \/ b = NaN THEN NaN
    ELSE IF ~IsFinite(a) \/ ~IsFinite(b)
         THEN (IF a = 0 \/ b = 0 THEN NaN
               ELSE IF Sgn(a) * Sgn(b) > 0 THEN PInf ELSE NInf)
    ELSE Sgn(a) * Sgn(b) * MulNat(Abs(a), Abs(b))

FDiv(a, b) ==
    IF a = NaN \/ b = NaN THEN NaN
    ELSE IF ~IsFinite(a)
         THEN (IF ~IsFinite(b) THEN NaN
               ELSE IF (a = PInf) = (b >= 0) THEN PInf ELSE NInf)
    ELSE IF ~IsFinite(b) THEN 0
    ELSE IF b = 0 THEN (IF a = 0 THEN NaN ELSE IF a > 0 THEN PInf ELSE NInf)
    ELSE Sgn(a) * Sgn(b) * DivNat(Abs(a), Abs(b))

\* comparisons: every comparison with NaN is false
FGt(a, b) == a # NaN /\ b # NaN /\ a > b
FLt(a, b) == a # NaN /\ b # NaN /\ a < b
FLe(a, b) == a # NaN /\ b # NaN /\ a <= b
FGe(a, b) == a # NaN /\ b # NaN /\ a >= b

RECURSIVE ExpSeries(_, _, _, _)
ExpSeries(y, term, n, acc) ==
    IF n > 12 \/ term = 0 THEN acc
    ELSE LET t == FDiv(FMul(term, y), n * SCALE)
         IN  ExpSeries(y, t, n + 1, acc + t)

RECURSIVE ExpInt(_)
ExpInt(k) ==
    IF k = 0 THEN SCALE
    ELSE IF k > 0 THEN FMul(E, ExpInt(k - 1))
    ELSE FDiv(ExpInt(k + 1), E)

\* f64::exp
FExp(y) ==
    IF y = NaN THEN NaN ELSE IF y = PInf THEN PInf ELSE IF y = NInf THEN 0
    ELSE LET k == (y + SCALE \div 2) \div SCALE
             r == y - k * SCALE
         IN  FMul(ExpInt(k), ExpSeries(r, SCALE, 1, SCALE))

RECURSIVE Newton(_, _)
Newton(n, r) ==
    LET r2 == (r + n \div r) \div 2 IN IF r2 >= r THEN r ELSE Newton(n, r2)

ISqrt(n) == IF n = 0 THEN 0 ELSE Newton(n, n)

\* f64::sqrt: NaN below zero
FSqrt(a) ==
    IF a = NaN \/ a = NInf THEN NaN ELSE IF a = PInf THEN PInf
    ELSE IF a < 0 THEN NaN
    ELSE IF a < 200000 THEN ISqrt(a * SCALE) ELSE ISqrt(a * 100) * 10

RECURSIVE AtanhSeries(_, _, _, _)
AtanhSeries(y2, pow, n, acc) ==
    IF n > 15 \/ pow = 0 THEN acc
    ELSE AtanhSeries(y2, FMul(pow, y2), n + 2, acc + FDiv(pow, n * SCALE))

RECURSIVE LnPos(_)
LnPos(a) ==
    IF a >= 2 * SCALE THEN 6931 + LnPos(a \div 2)
    ELSE IF a < SCALE THEN LnPos(a * 2) - 6931
    ELSE LET y == FDiv(a - SCALE, a + SCALE)
         IN  2 * AtanhSeries(FMul(y, y), y, 1, 0)

\* f64::ln: NaN below zero, -inf at zero
FLn(a) ==
    IF a = NaN \/ a = NInf THEN NaN ELSE IF a = PInf THEN PInf
    ELSE IF a < 0 THEN NaN ELSE IF a = 0 THEN NInf ELSE LnPos(a)

\* f64::powf for a base >= 0
FPowf(a, p) ==
    IF a = NaN \/ p = NaN THEN NaN
    ELSE IF p = 0 \/ a = SCALE THEN SCALE
    ELSE FExp(FMul(p, FLn(a)))

\* f64::powi for the small exponents the crate uses
RECURSIVE FPowi(_, _)
FPowi(a, n) == IF n = 0 THEN SCALE ELSE FMul(a, FPowi(a, n - 1))

RECURSIVE TrigSeries(_, _, _, _)
TrigSeries(x2, term, n, acc) ==
    IF n > 20 \/ term = 0 THEN acc
    ELSE LET t == FNeg(FDiv(FMul(term, x2), (n + 1) * (n + 2) * SCALE))
         IN  TrigSeries(x2, t, n + 2, acc + t)

RECURSIVE Wrap(_)
Wrap(x) == IF x > PI THEN Wrap(x - 2 * PI) ELSE IF x < -PI THEN Wrap(x + 2 * PI) ELSE x

\* f64::sin, f64::cos, f64::tan
FSin(x) ==
    IF ~IsFinite(x) THEN NaN
    ELSE LET w == Wrap(x) IN TrigSeries(FMul(w, w), w, 1, w)

FCos(x) ==
    IF ~IsFinite(x) THEN NaN
    ELSE LET w == Wrap(x) IN TrigSeries(FMul(w, w), SCALE, 0, SCALE)

FTan(x) == FDiv(FSin(x), FCos(x))

RECURSIVE AcosBisect(_, _, _)
AcosBisect(c, lo, hi) ==
    IF hi - lo <= 1 THEN lo
    ELSE LET mid == (lo + hi) \div 2
         IN  IF FCos(mid) > c THEN AcosBisect(c, mid, hi) ELSE AcosBisect(c, lo, mid)

\* f64::acos: NaN outside [-1, 1]
FAcos(c) ==
    IF ~IsFinite(c) \/ c > SCALE \/ c < -SCALE THEN NaN
    ELSE IF c = SCALE THEN 0
    ELSE IF c = -SCALE THEN PI
    ELSE AcosBisect(c, 0, PI)

\* f64::clamp
FClamp(a, lo, hi) == IF a = NaN THEN NaN ELSE IF a < lo THEN lo ELSE IF a > hi THEN hi ELSE a

---------------------------------------------------------------------------
(* climate::units::Units, as eta.rs uses it *)

\* Units::from_abbreviation: the unit an abbreviation names, "Err" for none
from_abbreviation(units) ==
    CASE units \in {"kPa", "kpa"} -> "KiloPascals"
      [] units \in {"Pa", "pa"} -> "Pascals"
      [] units \in {"C", "c"} -> "Celsius"
      [] units \in {"F", "f"} -> "Fahrenheit"
      [] units \in {"%", "percent"} -> "Percent"
      [] OTHER -> "Err"

\* Units::Fahrenheit.convert(t, &Units::Celsius)
FahrenheitToCelsius(t) == FDiv(FMul(FSub(t, 32 * SCALE), 5 * SCALE), 9 * SCALE)

\* Units::Pascals.convert(p, &Units::KiloPascals)
PascalsToKiloPascals(p) == FDiv(p, 1000 * SCALE)

---------------------------------------------------------------------------
(* eta.rs: EaInput *)

Methods ==
    {"Direct", "DewPoint", "MaxMinRelativeHumidity", "DailyMaxRelativeHumidity",
     "DailyMinRelativeHumidity", "DailyMinAirTemperature"}

\* a constructor that panicked built nothing
Panic == [input |-> None, method |-> "panic", rhmax |-> None, rhmin |-> None,
          tmax |-> None, tmin |-> None]

new_empty(method) ==
    [input |-> None, method |-> method, rhmax |-> None, rhmin |-> None,
     tmax |-> None, tmin |-> None]

new_direct(input, units) ==
    LET unit == from_abbreviation(units)
    IN  IF unit = "KiloPascals"
        THEN [new_empty("Direct") EXCEPT !.input = input]
        ELSE IF unit = "Pascals"
        THEN [new_empty("Direct") EXCEPT !.input = PascalsToKiloPascals(input)]
        ELSE Panic

new_dewpoint(tdew, units) ==
    LET unit == from_abbreviation(units)
    IN  IF unit = "Celsius"
        THEN [new_empty("DewPoint") EXCEPT !.input = tdew]
        ELSE IF unit = "Fahrenheit"
        THEN [new_empty("DewPoint") EXCEPT !.input = FahrenheitToCelsius(tdew)]
        ELSE Panic

new_rhmax_min(rhmax, rhmin, rh_units, tmax, tmin, temp_units) ==
    LET ea_input == [new_empty("MaxMinRelativeHumidity") EXCEPT
                        !.rhmax = rhmax, !.rhmin = rhmin]
        t_unit == from_abbreviation(temp_units)
    IN  IF from_abbreviation(rh_units) = "Err" \/ t_unit = "Err" THEN Panic
        ELSE IF t_unit = "Celsius"
        THEN [ea_input EXCEPT !.tmax = tmax, !.tmin = tmin]
        ELSE IF t_unit = "Fahrenheit"
        THEN [ea_input EXCEPT !.tmax = FahrenheitToCelsius(tmax),
                              !.tmin = FahrenheitToCelsius(tmin)]
        ELSE Panic

new_rhmax(rhmax, rh_units, tmax, temp_units) ==
    LET ea_input == [new_empty("DailyMaxRelativeHumidity") EXCEPT !.rhmax = rhmax]
        t_unit == from_abbreviation(temp_units)
    IN  IF from_abbreviation(rh_units) = "Err" \/ t_unit = "Err" THEN Panic
        ELSE IF t_unit = "Celsius"
        THEN [ea_input EXCEPT !.tmax = tmax]
        ELSE IF t_unit = "Fahrenheit"
        THEN [ea_input EXCEPT !.tmax = FahrenheitToCelsius(tmax)]
        ELSE Panic

new_rhmin(rhmin, rh_units, tmin, temp_units) ==
    LET ea_input == [new_empty("DailyMinRelativeHumidity") EXCEPT !.rhmin = rhmin]
        t_unit == from_abbreviation(temp_units)
    IN  IF from_abbreviation(rh_units) = "Err" \/ t_unit = "Err" THEN Panic
        ELSE IF t_unit = "Celsius"
        THEN [ea_input EXCEPT !.tmin = tmin]
        ELSE IF t_unit = "Fahrenheit"
        THEN [ea_input EXCEPT !.tmax = FahrenheitToCelsius(tmin)]
        ELSE Panic

new_tmin(tmin, units) ==
    LET unit == from_abbreviation(units)
    IN  IF unit = "Celsius"
        THEN [new_empty("DailyMinAirTemperature") EXCEPT !.tmin = tmin]
        ELSE IF unit = "Fahrenheit"
        THEN [new_empty("DailyMinAirTemperature") EXCEPT
                 !.tmin = FahrenheitToCelsius(tmin)]
        ELSE Panic

\* mutant: the dewpoint is looked at before the measured ea
new_from_output_DewFirst(output) ==
    IF output.dewpoint # None THEN new_dewpoint(output.dewpoint, "C")
    ELSE IF output.ea # None THEN new_direct(output.ea, "kPa")
    ELSE IF output.rhmin # None /\ output.rhmax # None
    THEN new_rhmax_min(output.rhmax, output.rhmin, "C", output.tmax, output.tmin, "C")
    ELSE IF output.rhmax # None THEN new_rhmax(output.rhmax, "C", output.tmax, "C")
    ELSE IF output.rhmin # None THEN new_rhmin(output.rhmin, "C", output.tmin, "C")
    ELSE new_tmin(output.tmin, "C")

new_from_output(output) ==
    IF output.ea # None THEN new_direct(output.ea, "kPa")
    ELSE IF output.dewpoint # None THEN new_dewpoint(output.dewpoint, "C")
    ELSE IF output.rhmin # None /\ output.rhmax # None
    THEN new_rhmax_min(output.rhmax, output.rhmin, "C", output.tmax, output.tmin, "C")
    ELSE IF output.rhmax # None THEN new_rhmax(output.rhmax, "C", output.tmax, "C")
    ELSE IF output.rhmin # None THEN new_rhmin(output.rhmin, "C", output.tmin, "C")
    ELSE new_tmin(output.tmin, "C")

\* Result<f64, Box<dyn Error>>
Ok(v) == [ok |-> TRUE, v |-> v]
Err == [ok |-> FALSE, v |-> 0]

\* mutant: the exponent has the opposite sign
eo_Falling(t) == FMul(6108, FPowf(E, FNeg(FDiv(FMul(172700, t), FAdd(t, 2373000)))))

\* saturation vapor pressure at t (Eq. 7)
eo(t) == FMul(6108, FPowf(E, FDiv(FMul(172700, t), FAdd(t, 2373000))))

\* mutant: exactly 1.0 is taken for one percent
RhFraction_Inclusive(rh) == IF FGe(rh, SCALE) THEN FDiv(rh, 100 * SCALE) ELSE rh

\* the percent heuristic shared by the three relative-humidity formulas
RhFraction(rh) == IF FGt(rh, SCALE) THEN FDiv(rh, 100 * SCALE) ELSE rh

\* mutant: a missing value is read as 0.0
get_ea_Default(self) == Ok(IF self.input = None THEN 0 ELSE self.input)

get_ea(self) == IF self.input = None THEN Err ELSE Ok(self.input)

convert_from_tdew(self) == IF self.input = None THEN Err ELSE Ok(eo(self.input))

\* mutant: the dewpoint depression of 3 degrees is left out
convert_from_tmin_NoDepression(self) ==
    IF self.tmin = None THEN Err ELSE Ok(eo(self.tmin))

convert_from_tmin(self) ==
    IF self.tmin = None THEN Err ELSE Ok(eo(FSub(self.tmin, 3 * SCALE)))

\* mutant: RHmax is paired with tmax and RHmin with tmin
convert_min_max_rh_Swapped(self) ==
    IF self.tmax = None \/ self.tmin = None \/ self.rhmax = None \/ self.rhmin = None
    THEN Err
    ELSE Ok(FDiv(FAdd(FMul(eo(self.tmax), RhFraction(self.rhmax)),
                      FMul(eo(self.tmin), RhFraction(self.rhmin))),
                 2 * SCALE))

convert_min_max_rh(self) ==
    IF self.tmax = None \/ self.tmin = None \/ self.rhmax = None \/ self.rhmin = None
    THEN Err
    ELSE Ok(FDiv(FAdd(FMul(eo(self.tmin), RhFraction(self.rhmax)),
                      FMul(eo(self.tmax), RhFraction(self.rhmin))),
                 2 * SCALE))

convert_rhmin(self) ==
    IF self.tmin = None \/ self.rhmin = None THEN Err
    ELSE Ok(FMul(eo(self.tmin), RhFraction(self.rhmin)))

convert_rhmax(self) ==
    IF self.tmax = None \/ self.rhmax = None THEN Err
    ELSE Ok(FMul(eo(self.tmax), RhFraction(self.rhmax)))

\* EaInput::ea
ea(self) ==
    CASE self.method = "Direct" -> get_ea(self)
      [] self.method = "DewPoint" -> convert_from_tdew(self)
      [] self.method = "MaxMinRelativeHumidity" -> convert_min_max_rh(self)
      [] self.method = "DailyMaxRelativeHumidity" -> convert_rhmax(self)
      [] self.method = "DailyMinRelativeHumidity" -> convert_rhmin(self)
      [] self.method = "DailyMinAirTemperature" -> convert_from_tmin(self)

---------------------------------------------------------------------------
(* et.rs: the radiation model and the reference-ET calculation *)

calc_atmospheric_pressure(z) ==
    LET calc_1 == FDiv(FSub(293 * SCALE, FMul(65, z)), 293 * SCALE)
    IN  FMul(FPowf(calc_1, 52600), 1013000)

\* atmospheric_pressure * 0.000665
psy_constant(atmospheric_pressure) ==
    FDiv(FMul(atmospheric_pressure, 665), 100 * SCALE)

mean_temp(max_temp, min_temp) == FDiv(FAdd(max_temp, min_temp), 2 * SCALE)

es_slope(tmean) ==
    LET e == FDiv(FMul(172700, tmean), FAdd(tmean, 2373000))
        num == FMul(2503 * SCALE, FExp(e))
        denom == FPowi(FAdd(tmean, 2373000), 2)
    IN  FDiv(num, denom)

es(max_temp, min_temp) == FDiv(FAdd(eo(max_temp), eo(min_temp)), 2 * SCALE)

\* (2.0 * PI / 365.0) * doy, multiplied before it is divided to keep the digits
DayAngle(doy) == FDiv(FMul(2 * PI, doy * SCALE), 365 * SCALE)

inverse_rel_dist_factor(doy) == FAdd(SCALE, FMul(330, FCos(DayAngle(doy))))

solar_declin(doy) == FMul(4090, FSin(FSub(DayAngle(doy), 13900)))

sunset_hour_angle(lat, delta) == FAcos(FMul(FMul(-SCALE, FTan(lat)), FTan(delta)))

calc_ra(latitude, doy) ==
    LET dr == inverse_rel_dist_factor(doy)
        delta == solar_declin(doy)
        omega == sunset_hour_angle(latitude, delta)
    IN  FMul(FMul(FMul(FDiv(24 * SCALE, PI), 49200), dr),
             FAdd(FMul(FMul(omega, FSin(latitude)), FSin(delta)),
                  FMul(FMul(FCos(latitude), FCos(delta)), FSin(omega))))

\* the latitudes (radians: 40.41 and 70 degrees) and days of the year the model draws
Latitudes == {7053, 12217}
Doys == {183}

\* calc_ra over those, computed once
RaTable == [latitude \in Latitudes, doy \in Doys |-> calc_ra(latitude, doy)]

\* (0.75 + 2e-5 * z) * ra
calc_rso(ra, z) == FMul(FAdd(7500, FDiv(FMul(2, z), 10 * SCALE)), ra)

calc_fcd(rso, rs) == FSub(FMul(FClamp(FDiv(rs, rso), 3000, SCALE), 13500), 3500)

\* ((t + 273.16) / 100)^4: the fourth power, scaled by 1e-8 to stay in range
Kelvin4(t) == FPowi(FDiv(FAdd(t, 2731600), 100 * SCALE), 4)

\* SIGMA is 4.901e-9: 0.4901 against the scaled fourth powers
calc_rnl(fcd, eaV, tmax, tmin) ==
    FDiv(FMul(FMul(FMul(4901, fcd), FSub(3400, FMul(1400, FSqrt(eaV)))),
              FAdd(Kelvin4(tmax), Kelvin4(tmin))),
         2 * SCALE)

calc_rns(rs) == FMul(FSub(SCALE, 2300), rs)

calc_rn(rns, rnl) == FSub(rns, rnl)

\* mutant: the wind speed is returned as measured at every height
calc_ws_Unadjusted(ws, wz) == ws

calc_ws(ws, wz) ==
    IF wz = 2 * SCALE THEN ws
    ELSE FMul(ws, FDiv(48700, FLn(FSub(FMul(678000, wz), 54200))))

calculate_hargreaves_samani_rs(tmax, tmin, ra) ==
    FMul(FMul(1600, ra), FSqrt(FSub(tmax, tmin)))

\* mutant: the Hargreaves-Samani estimate is not limited to the clear-sky radiation
SelectRs_NoClamp(input, ra, rso) ==
    IF input.rs # None THEN input.rs
    ELSE calculate_hargreaves_samani_rs(input.tmax, input.tmin, ra)

\* the solar radiation of calculate_ref_et's step 5
SelectRs(input, ra, rso) ==
    IF input.rs # None THEN input.rs
    ELSE LET harg_rs == calculate_hargreaves_samani_rs(input.tmax, input.tmin, ra)
         IN  IF FGt(harg_rs, rso) THEN rso ELSE harg_rs

\* mutant: both variants use the short crop's wind coefficient 0.34
PenmanMonteith_ShortWind(cn, cd, delta, gamma, rn, tmean, u2, esV, eaV) ==
    LET numerator ==
            FAdd(FMul(FMul(4080, delta), FSub(rn, 0)),
                 FMul(FMul(FMul(gamma, FDiv(cn, FAdd(tmean, 273 * SCALE))), u2),
                      FSub(esV, eaV)))
        denominator == FAdd(delta, FMul(gamma, FAdd(SCALE, FMul(3400, u2))))
    IN  FDiv(numerator, denominator)

\* one ASCE Penman-Monteith variant: cn is 900 or 1600, cd is 0.34 or 0.38
PenmanMonteith(cn, cd, delta, gamma, rn, tmean, u2, esV, eaV) ==
    LET numerator ==
            FAdd(FMul(FMul(4080, delta), FSub(rn, 0)),
                 FMul(FMul(FMul(gamma, FDiv(cn, FAdd(tmean, 273 * SCALE))), u2),
                      FSub(esV, eaV)))
        denominator == FAdd(delta, FMul(gamma, FAdd(SCALE, FMul(cd, u2))))
    IN  FDiv(numerator, denominator)

\* the actual vapor pressure of the vapor-pressure-deficit term: input.get_ea().unwrap()
DeficitEa(input) == input.ea

NoEt ==
    [status |-> "none", short |-> None, tall |-> None, method |-> "none",
     eaRnl |-> None, eaVpd |-> None, gamma |-> None, tmean |-> None, delta |-> None,
     es |-> None, ra |-> None, rso |-> None, rs |-> None, fcd |-> None, rn |-> None,
     u2 |-> None, stdout |-> 0]

\* calculate_ref_et: its return value, or the unwrap that panicked, with the locals
\* computed up to there; stdout counts the lines calc_ra printed
calculate_ref_et(input) ==
    LET eta == new_from_output(input)
        gamma == psy_constant(calc_atmospheric_pressure(input.z))
        mean_temperature == mean_temp(input.tmax, input.tmin)
        delta == es_slope(mean_temperature)
        saturation_vapor_pressure == es(input.tmax, input.tmin)
        extraterrestrial_radiation == RaTable[input.latitude, input.doy]
        clear_sky_radiation == calc_rso(extraterrestrial_radiation, input.z)
        rs == SelectRs(input, extraterrestrial_radiation, clear_sky_radiation)
        fraction_of_clear_day == calc_fcd(clear_sky_radiation, rs)
        eaRes == ea(eta)
        net_radiation ==
            calc_rn(calc_rns(rs),
                    calc_rnl(fraction_of_clear_day, eaRes.v, input.tmax, input.tmin))
        adjusted_wind_speed == calc_ws(input.ws, input.wz)
        upTo5 == [NoEt EXCEPT !.method = eta.method, !.gamma = gamma,
                     !.tmean = mean_temperature, !.delta = delta,
                     !.es = saturation_vapor_pressure,
                     !.ra = extraterrestrial_radiation, !.rso = clear_sky_radiation,
                     !.rs = rs, !.fcd = fraction_of_clear_day, !.stdout = 2]
    IN  IF ~eaRes.ok THEN [upTo5 EXCEPT !.status = "panic"]
        ELSE IF input.ws = None
        THEN [upTo5 EXCEPT !.status = "panic", !.eaRnl = eaRes.v, !.rn = net_radiation]
        ELSE IF DeficitEa(input) = None
        THEN [upTo5 EXCEPT !.status = "panic", !.eaRnl = eaRes.v, !.rn = net_radiation,
                           !.u2 = adjusted_wind_speed]
        ELSE [upTo5 EXCEPT
                 !.status = "ok", !.eaRnl = eaRes.v, !.rn = net_radiation,
                 !.u2 = adjusted_wind_speed, !.eaVpd = DeficitEa(input),
                 !.short = PenmanMonteith(900 * SCALE, 3400, delta, gamma, net_radiation,
                              mean_temperature, adjusted_wind_speed,
                              saturation_vapor_pressure, DeficitEa(input)),
                 !.tall = PenmanMonteith(1600 * SCALE, 3800, delta, gamma, net_radiation,
                              mean_temperature, adjusted_wind_speed,
                              saturation_vapor_pressure, DeficitEa(input))]

---------------------------------------------------------------------------
(* input.rs: the Input object.  A date text is modelled by the fields the   *)
(* format "%Y-%m-%d" reads: year, month and day, and whether dashes         *)
(* separate them.                                                           *)

\* Value::new
Value(value, units) == [value |-> value, units |-> units]

\* Option<Value>::None
NoValue == [value |-> None, units |-> ""]

\* no date: the Input does not exist yet
NoDate == [year |-> 0, month |-> 0, day |-> 0]

IsLeapYear(y) == (y % 4 = 0 /\ y % 100 # 0) \/ y % 400 = 0

DaysInMonth(y, m) ==
    IF m = 2 THEN (IF IsLeapYear(y) THEN 29 ELSE 28)
    ELSE IF m \in {4, 6, 9, 11} THEN 30 ELSE 31

\* NaiveDate::parse_from_str(date, "%Y-%m-%d"), at midnight UTC: the date, or Err
parse_from_str(date) ==
    IF /\ date.dashes
       /\ date.month \in 1..12
       /\ date.day \in 1..DaysInMonth(date.year, date.month)
    THEN [ok |-> TRUE, v |-> [year |-> date.year, month |-> date.month, day |-> date.day]]
    ELSE [ok |-> FALSE, v |-> NoDate]

\* no Input has been constructed
NoInput ==
    [exists |-> FALSE, tmax |-> NoValue, tmin |-> NoValue, ea |-> new_empty("none"),
     rs_input |-> NoValue, ws |-> NoValue, wz |-> NoValue, z |-> NoValue,
     latitude |-> NoValue, date |-> NoDate]

\* Result<Input, _> and Result<(), _>: whether the call returned Ok, and the Input after it
InputResult(ok, self) == [ok |-> ok, self |-> self]

\* mutant: the temperatures are not compared
Input_new_Unchecked(tmax, tmin, units, date) ==
    IF ~parse_from_str(date).ok THEN InputResult(FALSE, NoInput)
    ELSE InputResult(TRUE,
             [NoInput EXCEPT !.exists = TRUE, !.tmax = Value(tmax, units),
                             !.tmin = Value(tmin, units), !.date = parse_from_str(date).v])

\* Input::new
Input_new(tmax, tmin, units, date) ==
    IF FGt(tmin, tmax) THEN InputResult(FALSE, NoInput)
    ELSE IF ~parse_from_str(date).ok THEN InputResult(FALSE, NoInput)
    ELSE InputResult(TRUE,
             [NoInput EXCEPT !.exists = TRUE, !.tmax = Value(tmax, units),
                             !.tmin = Value(tmin, units), !.date = parse_from_str(date).v])

set_ea(self, eaInput) == [self EXCEPT !.ea = eaInput]

set_rs_input(self, rs, units) ==
    IF FGt(rs, 0) /\ units # ""
    THEN InputResult(TRUE, [self EXCEPT !.rs_input = Value(rs, units)])
    ELSE InputResult(FALSE, self)

\* mutant: a wind speed of zero is accepted
set_ws_NonNegative(self, ws, units) ==
    IF FGe(ws, 0) /\ units # ""
    THEN InputResult(TRUE, [self EXCEPT !.ws = Value(ws, units)])
    ELSE InputResult(FALSE, self)

set_ws(self, ws, units) ==
    IF FGt(ws, 0) /\ units # ""
    THEN InputResult(TRUE, [self EXCEPT !.ws = Value(ws, units)])
    ELSE InputResult(FALSE, self)

set_wz(self, wz, units) ==
    IF FGt(wz, 0) /\ units # ""
    THEN InputResult(TRUE, [self EXCEPT !.wz = Value(wz, units)])
    ELSE InputResult(FALSE, self)

set_z(self, z, units) ==
    IF FGt(z, 0) /\ units # ""
    THEN InputResult(TRUE, [self EXCEPT !.z = Value(z, units)])
    ELSE InputResult(FALSE, self)

\* (-90.0..=90.0).contains(&latitude)
set_latitude(self, latitude, units) ==
    IF FGe(latitude, -90 * SCALE) /\ FLe(latitude, 90 * SCALE) /\ units # ""
    THEN InputResult(TRUE, [self EXCEPT !.latitude = Value(latitude, units)])
    ELSE InputResult(FALSE, self)

set_date(self, date) ==
    IF parse_from_str(date).ok
    THEN InputResult(TRUE, [self EXCEPT !.date = parse_from_str(date).v])
    ELSE InputResult(FALSE, self)

---------------------------------------------------------------------------
(* The inputs the model draws *)

MaxTempIdx == 2
MaxRhIdx == 1

\* daily temperatures: 5, 20, 35, ... (Celsius, or Fahrenheit where a constructor
\* is told so)
Temps == {50000 + 150000 * k : k \in 0..MaxTempIdx}

\* relative humidities given as percent (45, 75, ...) and as fractions (0.5, 1.0)
RhPercents == {450000 + 300000 * k : k \in 0..MaxRhIdx}
RhValues == RhPercents \cup {5000, SCALE}

\* wind measurement heights: 0.05 m (67.8 * wz - 5.42 is negative there), the
\* 2 m reference height, and 3 m
WindHeights == {500, 2 * SCALE, 3 * SCALE}

\* the observations calculate_ref_et is handed: every presence combination of
\* ea, dewpoint, rhmax, rhmin, rs and ws, and every order of tmax and tmin
Observations ==
    [tmax : Temps, tmin : Temps,
     ea : {None, 12700}, dewpoint : {None, 100000},
     rhmax : {None, 850000}, rhmin : {None, 4500},
     rs : {None, 224000, 450000}, ws : {None, 19400}, wz : WindHeights,
     z : {14624000}, latitude : Latitudes, doy : Doys]

NoCtor ==
    [name |-> "none", input |-> None, units |-> "", rhmax |-> None, rhmin |-> None,
     rh_units |-> "", tmax |-> None, tmin |-> None, temp_units |-> ""]

NoEaInput == new_empty("none")

NoEaOut == [called |-> FALSE, ok |-> FALSE, v |-> 0]

EaOutOf(res) == [called |-> TRUE, ok |-> res.ok, v |-> res.v]

\* no call has been made on Input; tmax, tmin and date are Input::new's arguments
NoInRes ==
    [op |-> "none", ok |-> FALSE, tmax |-> None, tmin |-> None,
     date |-> [year |-> 0, month |-> 0, day |-> 0, dashes |-> FALSE]]

\* the Result of a setter call
SetterRes(op, res) == [NoInRes EXCEPT !.op = op, !.ok = res.ok]

\* the temperatures Input::new is handed: the daily temperatures, and NaN
InputTemps == Temps \cup {NaN}

\* date texts: 2000-07-01, 2000-02-29, 2001-02-29 (no such day), 2000/07/01
DateTexts ==
    {[year |-> 2000, month |-> 7, day |-> 1, dashes |-> TRUE],
     [year |-> 2000, month |-> 2, day |-> 29, dashes |-> TRUE],
     [year |-> 2001, month |-> 2, day |-> 29, dashes |-> TRUE],
     [year |-> 2000, month |-> 7, day |-> 1, dashes |-> FALSE]}

\* what the setters are handed: NaN, -1.0, 0.0, 1.94; no unit or a unit
SetterValues == {NaN, -SCALE, 0, 19400}
SetterUnits == {"", "m"}

\* latitudes in degrees: -90.0001, -90, 90, 90.0001
LatitudeDegrees == {-900001, -90 * SCALE, 90 * SCALE, 900001}

---------------------------------------------------------------------------
(* The reference-ET specification: one observation, the calls made on it *)

Init ==
    /\ obs \in Observations
    /\ ctor = NoCtor
    /\ eaIn = NoEaInput
    /\ eaOut = NoEaOut
    /\ et = NoEt
    /\ inp = NoInput
    /\ inRes = NoInRes

\* EaInput::new_from_output(&obs)
NewFromOutput ==
    /\ ctor' = [NoCtor EXCEPT !.name = "new_from_output"]
    /\ eaIn' = new_from_output(obs)
    /\ eaOut' = NoEaOut
    /\ UNCHANGED <<obs, et, inp, inRes>>

\* eaIn.ea(), on an EaInput that was constructed
Ea ==
    /\ eaIn.method \in Methods
    /\ eaOut' = EaOutOf(ea(eaIn))
    /\ UNCHANGED <<obs, ctor, eaIn, et, inp, inRes>>

\* calculate_ref_et(&obs)
CalculateRefEt ==
    /\ et' = calculate_ref_et(obs)
    /\ UNCHANGED <<obs, ctor, eaIn, eaOut, inp, inRes>>

Next == NewFromOutput \/ Ea \/ CalculateRefEt

Spec == Init /\ [][Next]_vars

---------------------------------------------------------------------------
(* The EaInput specification: the public constructors called directly *)

TempUnits == {"C", "F", "kPa", "bogus"}
RhUnits == {"%", "bogus"}

InitEa ==
    /\ obs = CHOOSE o \in Observations : TRUE
    /\ ctor = NoCtor
    /\ eaIn = NoEaInput
    /\ eaOut = NoEaOut
    /\ et = NoEt
    /\ inp = NoInput
    /\ inRes = NoInRes

NewEmpty ==
    \E method \in Methods :
        /\ ctor' = [NoCtor EXCEPT !.name = "new_empty"]
        /\ eaIn' = new_empty(method)
        /\ eaOut' = NoEaOut
        /\ UNCHANGED <<obs, et, inp, inRes>>

NewDirect ==
    \E input \in {12000, 10000000}, units \in {"kPa", "Pa", "C", "bogus"} :
        /\ ctor' = [NoCtor EXCEPT !.name = "new_direct", !.input = input, !.units = units]
        /\ eaIn' = new_direct(input, units)
        /\ eaOut' = NoEaOut
        /\ UNCHANGED <<obs, et, inp, inRes>>

NewDewpoint ==
    \E tdew \in Temps, units \in TempUnits :
        /\ ctor' = [NoCtor EXCEPT !.name = "new_dewpoint", !.input = tdew, !.units = units]
        /\ eaIn' = new_dewpoint(tdew, units)
        /\ eaOut' = NoEaOut
        /\ UNCHANGED <<obs, et, inp, inRes>>

NewRhmaxMin ==
    \E rhmax \in RhValues, rhmin \in RhValues, rh_units \in RhUnits,
       tmax \in Temps, tmin \in Temps, temp_units \in TempUnits :
        /\ ctor' = [NoCtor EXCEPT !.name = "new_rhmax_min", !.rhmax = rhmax,
                       !.rhmin = rhmin, !.rh_units = rh_units, !.tmax = tmax,
                       !.tmin = tmin, !.temp_units = temp_units]
        /\ eaIn' = new_rhmax_min(rhmax, rhmin, rh_units, tmax, tmin, temp_units)
        /\ eaOut' = NoEaOut
        /\ UNCHANGED <<obs, et, inp, inRes>>

NewRhmax ==
    \E rhmax \in RhValues, rh_units \in RhUnits, tmax \in Temps, temp_units \in TempUnits :
        /\ ctor' = [NoCtor EXCEPT !.name = "new_rhmax", !.rhmax = rhmax,
                       !.rh_units = rh_units, !.tmax = tmax, !.temp_units = temp_units]
        /\ eaIn' = new_rhmax(rhmax, rh_units, tmax, temp_units)
        /\ eaOut' = NoEaOut
        /\ UNCHANGED <<obs, et, inp, inRes>>

NewRhmin ==
    \E rhmin \in RhValues, rh_units \in RhUnits, tmin \in Temps, temp_units \in TempUnits :
        /\ ctor' = [NoCtor EXCEPT !.name = "new_rhmin", !.rhmin = rhmin,
                       !.rh_units = rh_units, !.tmin = tmin, !.temp_units = temp_units]
        /\ eaIn' = new_rhmin(rhmin, rh_units, tmin, temp_units)
        /\ eaOut' = NoEaOut
        /\ UNCHANGED <<obs, et, inp, inRes>>

NewTmin ==
    \E tmin \in Temps, units \in TempUnits :
        /\ ctor' = [NoCtor EXCEPT !.name = "new_tmin", !.tmin = tmin, !.temp_units = units]
        /\ eaIn' = new_tmin(tmin, units)
        /\ eaOut' = NoEaOut
        /\ UNCHANGED <<obs, et, inp, inRes>>

NextEa ==
    \/ NewEmpty
    \/ NewDirect
    \/ NewDewpoint
    \/ NewRhmaxMin
    \/ NewRhmax
    \/ NewRhmin
    \/ NewTmin
    \/ Ea

SpecEa == InitEa /\ [][NextEa]_vars

---------------------------------------------------------------------------
(* The Input specification: one Input object, constructed and then set *)

InitInput ==
    /\ obs = CHOOSE o \in Observations : TRUE
    /\ ctor = NoCtor
    /\ eaIn = NoEaInput
    /\ eaOut = NoEaOut
    /\ et = NoEt
    /\ inp = NoInput
    /\ inRes = NoInRes

etaVars == <<obs, ctor, eaIn, eaOut, et>>

\* Input::new(tmax, tmin, units, date), while no Input exists
InputNew ==
    \E tmax \in InputTemps, tmin \in InputTemps, units \in {"C", "F"}, date \in DateTexts :
        /\ ~inp.exists
        /\ inp' = Input_new(tmax, tmin, units, date).self
        /\ inRes' = [op |-> "new", ok |-> Input_new(tmax, tmin, units, date).ok,
                     tmax |-> tmax, tmin |-> tmin, date |-> date]
        /\ UNCHANGED etaVars

SetEa ==
    \E eaInput \in {new_empty("Direct"), new_direct(12700, "kPa")} :
        /\ inp.exists
        /\ inp' = set_ea(inp, eaInput)
        /\ inRes' = [NoInRes EXCEPT !.op = "set_ea", !.ok = TRUE]
        /\ UNCHANGED etaVars

SetRsInput ==
    \E rs \in SetterValues, units \in SetterUnits :
        /\ inp.exists
        /\ inp' = set_rs_input(inp, rs, units).self
        /\ inRes' = SetterRes("set_rs_input", set_rs_input(inp, rs, units))
        /\ UNCHANGED etaVars

SetWs ==
    \E ws \in SetterValues, units \in SetterUnits :
        /\ inp.exists
        /\ inp' = set_ws(inp, ws, units).self
        /\ inRes' = SetterRes("set_ws", set_ws(inp, ws, units))
        /\ UNCHANGED etaVars

SetWz ==
    \E wz \in SetterValues, units \in SetterUnits :
        /\ inp.exists
        /\ inp' = set_wz(inp, wz, units).self
        /\ inRes' = SetterRes("set_wz", set_wz(inp, wz, units))
        /\ UNCHANGED etaVars

SetZ ==
    \E z \in SetterValues, units \in SetterUnits :
        /\ inp.exists
        /\ inp' = set_z(inp, z, units).self
        /\ inRes' = SetterRes("set_z", set_z(inp, z, units))
        /\ UNCHANGED etaVars

SetLatitude ==
    \E latitude \in LatitudeDegrees, units \in SetterUnits :
        /\ inp.exists
        /\ inp' = set_latitude(inp, latitude, units).self
        /\ inRes' = SetterRes("set_latitude", set_latitude(inp, latitude, units))
        /\ UNCHANGED etaVars

SetDate ==
    \E date \in DateTexts :
        /\ inp.exists
        /\ inp' = set_date(inp, date).self
        /\ inRes' = SetterRes("set_date", set_date(inp, date))
        /\ UNCHANGED etaVars

NextInput ==
    \/ InputNew
    \/ SetEa
    \/ SetRsInput
    \/ SetWs
    \/ SetWz
    \/ SetZ
    \/ SetLatitude
    \/ SetDate

SpecInput == InitInput /\ [][NextInput]_vars

---------------------------------------------------------------------------
(* The claims *)

\* which of ea, dewpoint, rhmax, rhmin an observation carries
HasOnly(o, fields) ==
    /\ (o.ea # None) = ("ea" \in fields)
    /\ (o.dewpoint # None) = ("dewpoint" \in fields)
    /\ (o.rhmax # None) = ("rhmax" \in fields)
    /\ (o.rhmin # None) = ("rhmin" \in fields)

\* ea() was called on the EaInput that new_from_output built from obs
ResolvedFromOutput == ctor.name = "new_from_output" /\ eaOut.called

\* a relative humidity as a fraction: above 1 it is a percentage
AsFraction(rh) == IF rh > SCALE THEN FDiv(rh, 100 * SCALE) ELSE rh

\* C1: new_from_output selects the method by strict priority over the presence
\* of ea, dewpoint, rhmax and rhmin: Direct, else DewPoint, else
\* MaxMinRelativeHumidity when both humidities are present, else
\* DailyMaxRelativeHumidity, else DailyMinRelativeHumidity, else
\* DailyMinAirTemperature.
C1_MethodByPriority ==
    ctor.name = "new_from_output" =>
        eaIn.method =
            IF obs.ea # None THEN "Direct"
            ELSE IF obs.dewpoint # None THEN "DewPoint"
            ELSE IF obs.rhmax # None /\ obs.rhmin # None THEN "MaxMinRelativeHumidity"
            ELSE IF obs.rhmax # None THEN "DailyMaxRelativeHumidity"
            ELSE IF obs.rhmin # None THEN "DailyMinRelativeHumidity"
            ELSE "DailyMinAirTemperature"

C1_Witness ==
    /\ ctor.name = "new_from_output"
    /\ HasOnly(obs, {"rhmin"})
    /\ eaIn.method = "DailyMinRelativeHumidity"

\* C2: whichever method is selected, calculate_ref_et returns a pair of ET
\* values, and the ea of the vapor-pressure-deficit term is the ea the selected
\* method resolved (the one that feeds Rnl).  Stated for observations that carry
\* a wind speed.
C2_DeficitUsesResolvedEa ==
    (et.status # "none" /\ obs.ws # None) =>
        (et.status = "ok" /\ et.eaVpd = et.eaRnl)

\* C3: the two ET values are the ASCE Penman-Monteith expression over the same
\* delta, gamma, Rn, Tmean, u2, es and ea, with G = 0; the short variant has
\* 900 and 0.34 where the tall variant has 1600 and 0.38.
C3_PenmanMonteithPair ==
    et.status = "ok" =>
        /\ et.short =
              FDiv(FAdd(FMul(FMul(4080, et.delta), et.rn),
                        FMul(FMul(FMul(et.gamma,
                                       FDiv(900 * SCALE, FAdd(et.tmean, 273 * SCALE))),
                                  et.u2),
                             FSub(et.es, et.eaVpd))),
                   FAdd(et.delta, FMul(et.gamma, FAdd(SCALE, FMul(3400, et.u2)))))
        /\ et.tall =
              FDiv(FAdd(FMul(FMul(4080, et.delta), et.rn),
                        FMul(FMul(FMul(et.gamma,
                                       FDiv(1600 * SCALE, FAdd(et.tmean, 273 * SCALE))),
                                  et.u2),
                             FSub(et.es, et.eaVpd))),
                   FAdd(et.delta, FMul(et.gamma, FAdd(SCALE, FMul(3800, et.u2)))))

C3_Witness ==
    /\ et.status = "ok"
    /\ IsFinite(et.short) /\ IsFinite(et.tall)
    /\ et.short > 0 /\ et.tall > et.short
    /\ obs.wz # 2 * SCALE

\* C4: for an observation with rhmax and no ea, dewpoint or rhmin, the resolved
\* ea is eo(tmin) * RHmax.  Stated for observations that keep tmax >= tmin.
C4_RhmaxPairedWithTmin ==
    (ResolvedFromOutput /\ HasOnly(obs, {"rhmax"}) /\ obs.tmax >= obs.tmin) =>
        (eaOut.ok /\ eaOut.v = FMul(eo(obs.tmin), AsFraction(obs.rhmax)))

\* C5: for an observation with rhmin and no ea, dewpoint or rhmax, the resolved
\* ea is eo(tmax) * RHmin.  Stated for observations that keep tmax >= tmin.
C5_RhminPairedWithTmax ==
    (ResolvedFromOutput /\ HasOnly(obs, {"rhmin"}) /\ obs.tmax >= obs.tmin) =>
        (eaOut.ok /\ eaOut.v = FMul(eo(obs.tmax), AsFraction(obs.rhmin)))

\* the Celsius value of a temperature a constructor was given
CtorCelsius(t) ==
    IF from_abbreviation(ctor.temp_units) = "Fahrenheit" THEN FahrenheitToCelsius(t) ELSE t

\* C6: on an EaInput built by new_rhmax_min(rhmax, rhmin, tmax, tmin), ea()
\* returns Ok((eo(tmin) * RHmax + eo(tmax) * RHmin) / 2), the humidities as
\* fractions and the temperatures in Celsius.
C6_MaxMinFormula ==
    (ctor.name = "new_rhmax_min" /\ eaIn.method = "MaxMinRelativeHumidity" /\ eaOut.called) =>
        /\ eaOut.ok
        /\ eaOut.v =
              FDiv(FAdd(FMul(eo(CtorCelsius(ctor.tmin)), AsFraction(ctor.rhmax)),
                        FMul(eo(CtorCelsius(ctor.tmax)), AsFraction(ctor.rhmin))),
                   2 * SCALE)

C6_Witness ==
    /\ ctor.name = "new_rhmax_min" /\ eaOut.called /\ eaOut.ok
    /\ ctor.temp_units = "F" /\ ctor.tmax > ctor.tmin
    /\ ctor.rhmax > SCALE /\ ctor.rhmin > SCALE /\ ctor.rhmax # ctor.rhmin

\* C7: for an observation with none of ea, dewpoint, rhmax, rhmin, the resolved
\* ea is eo(tmin - 3.0).
C7_TminFallback ==
    (ResolvedFromOutput /\ HasOnly(obs, {})) =>
        (eaOut.ok /\ eaOut.v = eo(obs.tmin - 3 * SCALE))

C7_Witness ==
    /\ ResolvedFromOutput /\ HasOnly(obs, {})
    /\ eaIn.method = "DailyMinAirTemperature"
    /\ eaOut.ok /\ obs.tmax # obs.tmin

\* C8: in each of the three relative-humidity methods, a humidity above 1 is
\* divided by 100 before it enters the formula and a humidity of at most 1,
\* exactly 1.0 included, enters unchanged; rhmax and rhmin alike.
C8_PercentAboveOne ==
    (eaOut.called /\ eaOut.ok) =>
        /\ eaIn.method = "MaxMinRelativeHumidity" =>
              eaOut.v =
                  FDiv(FAdd(FMul(eo(eaIn.tmin),
                                 IF eaIn.rhmax > SCALE
                                 THEN FDiv(eaIn.rhmax, 100 * SCALE) ELSE eaIn.rhmax),
                            FMul(eo(eaIn.tmax),
                                 IF eaIn.rhmin > SCALE
                                 THEN FDiv(eaIn.rhmin, 100 * SCALE) ELSE eaIn.rhmin)),
                       2 * SCALE)
        /\ eaIn.method = "DailyMaxRelativeHumidity" =>
              eaOut.v =
                  FMul(eo(eaIn.tmax),
                       IF eaIn.rhmax > SCALE
                       THEN FDiv(eaIn.rhmax, 100 * SCALE) ELSE eaIn.rhmax)
        /\ eaIn.method = "DailyMinRelativeHumidity" =>
              eaOut.v =
                  FMul(eo(eaIn.tmin),
                       IF eaIn.rhmin > SCALE
                       THEN FDiv(eaIn.rhmin, 100 * SCALE) ELSE eaIn.rhmin)

C8_Witness ==
    /\ eaOut.called /\ eaOut.ok
    /\ eaIn.method = "MaxMinRelativeHumidity"
    /\ eaIn.rhmax = SCALE /\ eaIn.rhmin > SCALE
    /\ eaIn.tmax # eaIn.tmin

\* C9: Rs is the measured Rs when the observation carries one; otherwise
\* Rs_est = 0.16 * Ra * sqrt(tmax - tmin), and Rs is Rso when Rs_est > Rso and
\* Rs_est when not.
C9_RsPolicy ==
    et.status # "none" =>
        et.rs =
            IF obs.rs # None THEN obs.rs
            ELSE LET rs_est == FMul(FMul(1600, et.ra), FSqrt(FSub(obs.tmax, obs.tmin)))
                 IN  IF FGt(rs_est, et.rso) THEN et.rso ELSE rs_est

C9_Witness ==
    /\ et.status # "none" /\ obs.rs = None
    /\ et.rs = et.rso
    /\ FGt(FMul(FMul(1600, et.ra), FSqrt(FSub(obs.tmax, obs.tmin))), et.rso)

\* C10: after step 5 the Rs that feeds FCD and Rns is at most Rso, for a
\* measured Rs as for an estimated one.  Stated for observations that keep
\* tmax >= tmin.
C10_RsAtMostRso ==
    (et.status # "none" /\ obs.tmax >= obs.tmin) => FLe(et.rs, et.rso)

\* C11: calc_fcd(rso, rs) is clamp(rs / rso, 0.3, 1.0) * 1.35 - 0.35, and the
\* FCD that calculate_ref_et computes from its Rs and Rso lies in [0.055, 1.0].
C11_FcdInRange ==
    et.status # "none" =>
        /\ et.fcd =
              FSub(FMul(IF et.rs = NaN \/ et.rso = NaN THEN NaN
                        ELSE IF FLt(FDiv(et.rs, et.rso), 3000) THEN 3000
                        ELSE IF FGt(FDiv(et.rs, et.rso), SCALE) THEN SCALE
                        ELSE FDiv(et.rs, et.rso),
                        13500),
                   3500)
        /\ FGe(et.fcd, 550) /\ FLe(et.fcd, SCALE)
\* C12: calc_ws(ws, wz) is ws itself when wz == 2.0, and
\* ws * 4.87 / ln(67.8 * wz - 5.42) for every other wz.
C12_WindAdjustment ==
    et.u2 # None =>
        et.u2 =
            IF obs.wz = 2 * SCALE THEN obs.ws
            ELSE FMul(obs.ws, FDiv(48700, FLn(FSub(FMul(678000, obs.wz), 54200))))

\* a wind speed of 1.94 m/s measured at 3 m is 1.786 m/s at 2 m (test_calculate_ws)
C12_Witness ==
    /\ et.u2 # None
    /\ obs.ws = 19400 /\ obs.wz = 3 * SCALE
    /\ et.u2 > 17850 /\ et.u2 < 17870

\* the argument of the logarithm in the wind adjustment: 67.8 * wz - 5.42
WindLogArgument == FSub(FMul(678000, obs.wz), 54200)

\* C13: when 67.8 * wz - 5.42 is not positive, calculate_ref_et returns no ET
\* values, and a returned pair is never computed from a NaN or infinite u2.
\* Stated for observations that carry a measured ea and a wind speed.
C13_WindDomainError ==
    (et.status # "none" /\ obs.ea # None /\ obs.ws # None) =>
        /\ FLe(WindLogArgument, 0) => et.status # "ok"
        /\ et.status = "ok" =>
              (IsFinite(et.u2) /\ IsFinite(et.short) /\ IsFinite(et.tall))

\* C14: when no Rs is measured and tmax - tmin < 0, calculate_ref_et returns
\* no ET values, and a returned pair is never computed from a NaN Rs.
\* Stated for observations that carry a measured ea and a wind speed.
C14_HargreavesDomainError ==
    (et.status # "none" /\ obs.ea # None /\ obs.ws # None) =>
        /\ (obs.rs = None /\ obs.tmax < obs.tmin) => et.status # "ok"
        /\ et.status = "ok" => (et.rs # NaN /\ et.fcd # NaN /\ et.rn # NaN)

\* the fields the formula of a method reads (ea's match and the convert_* bodies)
RequiredFields(method) ==
    CASE method = "Direct" -> {"input"}
      [] method = "DewPoint" -> {"input"}
      [] method = "MaxMinRelativeHumidity" -> {"tmax", "tmin", "rhmax", "rhmin"}
      [] method = "DailyMaxRelativeHumidity" -> {"tmax", "rhmax"}
      [] method = "DailyMinRelativeHumidity" -> {"tmin", "rhmin"}
      [] method = "DailyMinAirTemperature" -> {"tmin"}

\* an EaInput that lacks a field its method's formula reads
Lacks(self) == \E f \in RequiredFields(self.method) : self[f] = None

\* C15: no public constructor, new_empty included, yields an EaInput that
\* lacks a field its method requires: every EaInput that exists carries them.
C15_RequiredFieldsAtConstruction ==
    (ctor.name # "none" /\ eaIn.method \in Methods) => ~Lacks(eaIn)

\* C16: ea() on an EaInput that lacks a field its method requires returns Err,
\* for each of the six methods, and every call of ea() leaves the EaInput as
\* it was.
C16_MissingFieldIsErr ==
    /\ []((eaOut.called /\ Lacks(eaIn)) => ~eaOut.ok)
    /\ [][eaOut'.called => eaIn' = eaIn]_vars

\* ea() has returned Err on an EaInput that new_empty built
C16_Witness ==
    /\ ctor.name = "new_empty" /\ eaIn.method = "MaxMinRelativeHumidity"
    /\ Lacks(eaIn) /\ eaOut.called /\ ~eaOut.ok

\* C17: calculate_ref_et on an observation without a wind speed does not
\* panic (it reports the missing field and returns no pair).  Stated for
\* observations that carry a measured ea.
C17_MissingWindIsError ==
    (et.status # "none" /\ obs.ea # None /\ obs.ws = None) => et.status # "panic"

\* C19: a call of calculate_ref_et writes nothing to standard output, changes
\* nothing but its result, and its result is a function of the observation.
C19_NoSideEffect ==
    /\ [](et.status # "none" => (et.stdout = 0 /\ et = calculate_ref_et(obs)))
    /\ [][et' # et => (obs' = obs /\ ctor' = ctor /\ eaIn' = eaIn /\ eaOut' = eaOut)]_vars

\* C18: Input::new returns Err and builds no Input when tmin > tmax or when
\* the date is not a YYYY-MM-DD date; every Input that exists has
\* tmax >= tmin, and no later call changes tmax or tmin.
C18_TmaxAtLeastTmin ==
    /\ []((inRes.op = "new" /\ (FGt(inRes.tmin, inRes.tmax) \/ ~parse_from_str(inRes.date).ok))
            => (~inRes.ok /\ ~inp.exists))
    /\ [](inp.exists => FGe(inp.tmax.value, inp.tmin.value))
    /\ [][inp.exists => (inp'.tmax = inp.tmax /\ inp'.tmin = inp.tmin)]_vars

\* the temperature fields the formula of a method reads
TemperatureFields(method) ==
    CASE method = "Direct" -> {}
      [] method = "DewPoint" -> {"input"}
      [] method = "MaxMinRelativeHumidity" -> {"tmax", "tmin"}
      [] method = "DailyMaxRelativeHumidity" -> {"tmax"}
      [] method = "DailyMinRelativeHumidity" -> {"tmin"}
      [] method = "DailyMinAirTemperature" -> {"tmin"}

\* by how much a temperature is raised: 1 and 15 degrees Celsius
TempRaises == {SCALE, 15 * SCALE}

\* the EaInput with one of its fields raised, everything else as it is
Raised(self, field, by) == [self EXCEPT ![field] = FAdd(@, by)]

\* C20: for every method, raising one temperature that the method reads, the
\* humidities and the other temperature held fixed, never lowers the ea that
\* ea() returns.
C20_EaMonotoneInTemperature ==
    (eaOut.called /\ eaOut.ok) =>
        \A field \in TemperatureFields(eaIn.method), by \in TempRaises :
            /\ ea(Raised(eaIn, field, by)).ok
            /\ FGe(ea(Raised(eaIn, field, by)).v, eaOut.v)

\* a two-humidity EaInput whose ea rises with tmax and with tmin
C20_Witness ==
    /\ eaOut.called /\ eaOut.ok
    /\ eaIn.method = "MaxMinRelativeHumidity"
    /\ eaIn.tmin < 0
    /\ FGt(ea(Raised(eaIn, "tmax", SCALE)).v, eaOut.v)
    /\ FGt(ea(Raised(eaIn, "tmin", SCALE)).v, eaOut.v)

\* the constructors that take the values of their method
SmartConstructors ==
    {"new_direct", "new_dewpoint", "new_rhmax_min", "new_rhmax", "new_rhmin", "new_tmin"}

\* C21: an EaInput built by a smart constructor, in any unit the constructor
\* accepts, carries exactly the fields its method's formula reads, and ea()
\* on it returns Ok.
C21_ConstructorsPopulateFields ==
    (ctor.name \in SmartConstructors /\ eaIn.method \in Methods) =>
        /\ \A field \in {"input", "rhmax", "rhmin", "tmax", "tmin"} :
              (eaIn[field] # None) = (field \in RequiredFields(eaIn.method))
        /\ eaOut.called => eaOut.ok

\* a stored value that passed the check of set_rs_input, set_ws, set_wz, set_z
PositiveWithUnit(value) == FGt(value.value, 0) /\ value.units # ""

\* C22: whatever setters were called, every optional field of the Input that
\* is present holds a value that passed its validation (rs, ws, wz, z above
\* zero with a unit, latitude within [-90, 90] with a unit), and a setter call
\* that returns Err leaves every field of the Input as it was.
C22_SettersValidate ==
    /\ [](inp.exists =>
            /\ \A field \in {"rs_input", "ws", "wz", "z"} :
                  inp[field] # NoValue => PositiveWithUnit(inp[field])
            /\ inp.latitude # NoValue =>
                  /\ FGe(inp.latitude.value, -90 * SCALE)
                  /\ FLe(inp.latitude.value, 90 * SCALE)
                  /\ inp.latitude.units # "")
    /\ [][(inp.exists /\ ~inRes'.ok) => inp' = inp]_vars

\* set_ws has rejected its argument on an Input that had a valid wind speed,
\* and the Input still has it
C22_Witness ==
    /\ inp.exists
    /\ inRes.op = "set_ws" /\ ~inRes.ok
    /\ inp.ws = Value(19400, "m")
    /\ inp.latitude # NoValue /\ inp.z # NoValue

\* the argument of the arc cosine in sunset_hour_angle: -tan(lat) * tan(delta)
SunsetArgument ==
    FMul(FMul(-SCALE, FTan(obs.latitude)), FTan(solar_declin(obs.doy)))

\* C23: for a latitude within -90 to 90 degrees and a day of the year, the
\* argument -tan(lat) * tan(delta) lies within [-1, 1], and the Ra that
\* calculate_ref_et gets from calc_ra is a number.
C23_SunsetAngleDefined ==
    et.status # "none" =>
        /\ FGe(SunsetArgument, -SCALE) /\ FLe(SunsetArgument, SCALE)
        /\ et.ra # NaN

====
